---- MODULE Spec2Model ----
(***************************************************************************)
(* Model of WindhagerHttpClient (custom_components/windhager/client.py):   *)
(* the specification loader, the device model builder, the fetch pipeline, *)
(* the eco/comfort default setter, and the session life cycle, with the    *)
(* coroutines interleaving at their await points.                          *)
(*                                                                         *)
(* Python values.  A Python str is a sequence of one-character strings     *)
(* ("" is << >>); None is the one-element sequence <<"None">>, which is no *)
(* Python str because its element has more than one character.  A Python   *)
(* dict is a function whose DOMAIN is the set of its keys.                 *)
(***************************************************************************)
EXTENDS Integers, Sequences, FiniteSets, TLC

None == <<"None">>

\* Python truthiness of a str-or-None value: None and "" are falsy.
Truthy(v) == v # None /\ v # << >>

SeqToSet(q) == {q[i] : i \in DOMAIN q}

\* dict.get(k) and dict.get(k, default)
Get(d, k) == IF k \in DOMAIN d THEN d[k] ELSE None

GetOr(d, k, default) == IF k \in DOMAIN d THEN d[k] ELSE default

----------------------------------------------------------------------------
(* Bounds *)

\* longest heating_circuits list of a specification document
MaxCircuits == 2

\* longest modules list of a specification document
MaxModules == 1

\* number of API calls (fetch_all, update, close, setter) started in a run
MaxCalls == 3

\* longest string slugify is applied to
MaxLen == 3

----------------------------------------------------------------------------
(* Strings of the program and of the documents *)

host == <<"w", ".", "x">>

O_mode  == <<"/", "6", "/", "0">>
O_room  == <<"/", "6", "/", "3">>

V_sentinel == <<"-", ".", "-">>
V_empty    == << >>
V_temp     == <<"2", "1", ".", "5">>

U_degC == <<"C">>

\* names of circuits and modules: only ever concatenated into device names,
\* so each is kept as one token
N_HK1 == "HK1"
N_HK2 == "HK2"
N_MOD == "AeroWIN"
N_S1  == <<"K", "e", "s", "s", "e", "l", "t", "e", "m", "p", "e", "r", "a", "t", "u", "r">>
N_S2  == <<"L", "e", "i", "s", "t", "u", "n", "g">>
N_S3  == <<"T", "E", "M", "P", "E", "R", "A", "T", "U", "R">>

----------------------------------------------------------------------------
(* Python values handed to int(): JSON numbers and strings, floats, None *)

PyInt(n)   == [t |-> "int", v |-> n]

PyStr(s)   == [t |-> "str", s |-> s]

\* a float with one decimal, given in tenths: PyFloat(-5) is -0.5
PyFloat(n) == [t |-> "float", tenths |-> n]

PyNone     == [t |-> "none"]

Digits == <<"0", "1", "2", "3", "4", "5", "6", "7", "8", "9">>

IsDigit(c) == \E i \in 1..10 : Digits[i] = c

DigitVal(c) == (CHOOSE i \in 1..10 : Digits[i] = c) - 1

RECURSIVE ParseDigits(_, _)
\* value of the digit string s, acc being the value of the digits read so far
ParseDigits(s, acc) ==
    IF s = << >> THEN acc ELSE ParseDigits(Tail(s), 10 * acc + DigitVal(Head(s)))

AllDigits(s) == Len(s) > 0 /\ \A i \in 1..Len(s) : IsDigit(s[i])

Raised == [ok |-> FALSE]

Value(n) == [ok |-> TRUE, v |-> n]

\* int(str): an optional sign and decimal digits, anything else is ValueError
IntOfStr(s) ==
    IF AllDigits(s) THEN Value(ParseDigits(s, 0))
    ELSE IF Len(s) > 1 /\ s[1] = "-" /\ AllDigits(Tail(s))
         THEN Value(0 - ParseDigits(Tail(s), 0))
    ELSE IF Len(s) > 1 /\ s[1] = "+" /\ AllDigits(Tail(s))
         THEN Value(ParseDigits(Tail(s), 0))
    ELSE Raised

\* int(float) truncates toward zero
IntOfFloat(n) == IF n >= 0 THEN n \div 10 ELSE 0 - ((0 - n) \div 10)

\* Python's int(x): the integer, or an exception (ValueError, TypeError)
int(x) ==
    CASE x.t = "int"   -> Value(x.v)
      [] x.t = "str"   -> IntOfStr(x.s)
      [] x.t = "float" -> Value(IntOfFloat(x.tenths))
      [] OTHER         -> Raised

RECURSIVE str(_)
\* str(n) of a natural number, as f"{node}" formats it
str(n) == IF n < 10 THEN <<Digits[n + 1]>> ELSE str(n \div 10) \o <<Digits[(n % 10) + 1]>>

\* str(x) of a Python value: an int in decimal, a str itself, a float with
\* its one decimal ("0.0"), None as "None"
py_str(x) ==
    CASE x.t = "int"   -> IF x.v < 0 THEN <<"-">> \o str(0 - x.v) ELSE str(x.v)
      [] x.t = "str"   -> x.s
      [] x.t = "float" ->
            (IF x.tenths < 0 THEN <<"-">> ELSE << >>)
                \o str((IF x.tenths < 0 THEN 0 - x.tenths ELSE x.tenths) \div 10)
                \o <<".">>
                \o str((IF x.tenths < 0 THEN 0 - x.tenths ELSE x.tenths) % 10)
      [] OTHER         -> <<"N", "o", "n", "e">>

----------------------------------------------------------------------------
(* The specification documents (spec.json) the client may find *)

hk1 == [name |-> N_HK1, node |-> 6, fct |-> 0,
        oids |-> [mode |-> O_mode, room_temp |-> O_room,
                  eco_temp |-> << >>, pump |-> << >>]]

hk2 == [name |-> N_HK2, node |-> 7, fct |-> 1,
        oids |-> [flow_temp |-> O_room, mixer |-> O_room]]

\* the circuits a document lists are consecutive entries of this list
CircuitList == <<hk1, hk2, hk1>>

modA == [name |-> N_MOD, node |-> 9, fct |-> 2,
         sensors |-> <<[oid |-> O_room, name |-> N_S1],
                       [oid |-> O_mode, name |-> N_S2],
                       [oid |-> O_mode, name |-> N_S3]>>]

modB == [name |-> N_MOD, node |-> 9, fct |-> 3]

\* the modules a document lists are consecutive entries of this list
ModuleList == <<modA, modB, modA>>

\* the runs of at most n consecutive entries of the list q
RunsUpTo(q, n) ==
    {SubSeq(q, i, j) : i \in 1..Len(q), j \in 0..Len(q)} \cap UNION {[1..k -> SeqToSet(q)] : k \in 0..n}

\* the values a document gives "unknown_values", when it has the key
UnknownValuesPool == {<<V_sentinel>>}

\* the values a document gives "eco_default_duration_minutes", when it has the key
EcoPool == {PyInt(45), PyInt(0), PyStr(<<"a", "b", "c">>)}

\* with(d, k, v): the dict d with key k set to v
With(d, k, v) == [x \in DOMAIN d \cup {k} |-> IF x = k THEN v ELSE d[x]]

BaseDocuments ==
    {[heating_circuits |-> c, modules |-> m] :
        c \in RunsUpTo(CircuitList, MaxCircuits), m \in RunsUpTo(ModuleList, MaxModules)}

\* the document the optional keys are added to
FullDocument == [heating_circuits |-> <<hk1, hk2>>, modules |-> <<modA>>]

Documents ==
    BaseDocuments
        \cup {With(FullDocument, "unknown_values", u) : u \in UnknownValuesPool}
        \cup {With(FullDocument, "eco_default_duration_minutes", e) : e \in EcoPool}

\* what is at the path of spec.json: a document json.load returns, or nothing
\* readable (no file, no permission, not JSON)
Files == {[readable |-> TRUE, json |-> d] : d \in Documents} \cup {[readable |-> FALSE]}

----------------------------------------------------------------------------
(* Specification loader and constructor *)

Fallback == [heating_circuits |-> << >>, modules |-> << >>]

load_spec(file) == IF file.readable THEN file.json ELSE Fallback

DefaultUnknownValues == {V_sentinel, V_empty}

init_unknown_values(spec) ==
    IF "unknown_values" \in DOMAIN spec
    THEN SeqToSet(spec["unknown_values"]) ELSE DefaultUnknownValues

DefaultEco == 180

\* int(self._spec.get("eco_default_duration_minutes", 180)): a value or an exception
init_eco(spec) == int(GetOr(spec, "eco_default_duration_minutes", PyInt(DefaultEco)))

----------------------------------------------------------------------------
(* Device model builder *)

\* mutant: only the first occurrence is replaced
replace_first(x, old, new) ==
    [i \in 1..Len(x) |->
        IF x[i] = old /\ (\A j \in 1..(i - 1) : x[j] # old) THEN new ELSE x[i]]

\* str.replace(old, new) for one-character old and new
replace(x, old, new) == [i \in 1..Len(x) |-> IF x[i] = old THEN new ELSE x[i]]

slugify(identifier_str) == replace(replace(identifier_str, ".", "-"), "/", "-")

ClimateRoles ==
    <<"mode", "comfort_offset", "eco_temp", "eco_duration", "room_temp", "room_target_ro">>

TemperatureRoles ==
    <<"room_temp", "room_target_ro", "flow_temp", "flow_target", "dhw_temp",
      "dhw_target_ro", "outside_temp">>

StatusRoles == <<"pump", "mixer">>

\* the text f"{name} ..." appends to the circuit name for the child of a role
RoleLabel(key) ==
    CASE key = "room_temp" -> " Room Temperature"
      [] key = "room_target_ro" -> " Target Temperature (read-only)"
      [] key = "flow_temp" -> " Flow Temperature"
      [] key = "flow_target" -> " Flow Target"
      [] key = "dhw_temp" -> " DHW Temperature"
      [] key = "dhw_target_ro" -> " DHW Target (read-only)"
      [] key = "outside_temp" -> " Outside Temperature"
      [] key = "pump" -> " Pump"
      [] key = "mixer" -> " Mixer"

\* f"{a}{b}" of a name and a text: the two parts, in order
NameConcat(a, b) == <<a, b>>

hk_prefix(hk) == <<"/", "1", "/">> \o str(hk.node) \o <<"/">> \o str(hk.fct)

hk_dev_id(hk) == slugify(host \o hk_prefix(hk))

\* mutant: only the roles the circuit defines become keys
climate_oids_map_present(oids) ==
    [k \in SeqToSet(ClimateRoles) \cap DOMAIN oids |-> oids[k]]

climate_oids_map(oids) == [k \in SeqToSet(ClimateRoles) |-> Get(oids, k)]

climate_device(hk) ==
    [id |-> hk_dev_id(hk), name |-> hk.name, type |-> "climate", prefix |-> hk_prefix(hk),
     oids_map |-> climate_oids_map(hk.oids),
     device_id |-> hk_dev_id(hk), device_name |-> hk.name]

temperature_child(hk, key) ==
    [id |-> slugify(host \o hk.oids[key]), name |-> NameConcat(hk.name, RoleLabel(key)),
     type |-> "temperature", oid |-> hk.oids[key],
     device_id |-> hk_dev_id(hk), device_name |-> hk.name]

status_child(hk, key) ==
    [id |-> slugify(host \o hk.oids[key]), name |-> NameConcat(hk.name, RoleLabel(key)),
     type |-> "sensor", device_class |-> None, state_class |-> None, unit |-> None,
     oid |-> hk.oids[key],
     device_id |-> hk_dev_id(hk), device_name |-> hk.name]

child_device(hk, key, typ) ==
    IF typ = "temperature" THEN temperature_child(hk, key) ELSE status_child(hk, key)

\* mutant: `if oid is not None:`, which emits a child for an empty OID
child_emitted_not_none(oids, key) == Get(oids, key) # None

\* `oid = oids.get(key); if oid:` of the two child loops
child_emitted(oids, key) == Truthy(Get(oids, key))

RECURSIVE children(_, _, _)
\* the devices one child loop appends, over the roles `keys` in order
children(hk, keys, typ) ==
    IF keys = << >> THEN << >>
    ELSE (IF child_emitted(hk.oids, Head(keys))
          THEN <<child_device(hk, Head(keys), typ)>> ELSE << >>)
         \o children(hk, Tail(keys), typ)

\* mutant: the control OIDs that have no child sensor are not registered
registered_control_oids_forgotten(oids) ==
    {oids[k] : k \in {r \in SeqToSet(ClimateRoles) \cap SeqToSet(TemperatureRoles) :
                        Truthy(Get(oids, r))}}

\* `if oids.get(k): self._oids_to_fetch.add(oids[k])` over the six control roles
registered_control_oids(oids) ==
    {oids[k] : k \in {r \in SeqToSet(ClimateRoles) : Truthy(Get(oids, r))}}

\* `self._oids_to_fetch.add(oid)` of the two child loops
registered_child_oids(oids) ==
    {oids[k] : k \in {r \in SeqToSet(TemperatureRoles) \cup SeqToSet(StatusRoles) :
                        child_emitted(oids, r)}}

\* _build_hk_climate_device applied to the pair (devices, oids_to_fetch)
build_hk_climate_device(b, hk) ==
    [devices |-> b.devices \o <<climate_device(hk)>>
                    \o children(hk, TemperatureRoles, "temperature")
                    \o children(hk, StatusRoles, "sensor"),
     oids_to_fetch |-> b.oids_to_fetch \cup registered_control_oids(hk.oids)
                            \cup registered_child_oids(hk.oids)]

Upper == <<"A", "B", "C", "D", "E", "F", "G", "H", "I", "J", "K", "L", "M", "N", "O", "P", "Q", "R", "S", "T", "U", "V", "W", "X", "Y", "Z">>

Lower == <<"a", "b", "c", "d", "e", "f", "g", "h", "i", "j", "k", "l", "m", "n", "o", "p", "q", "r", "s", "t", "u", "v", "w", "x", "y", "z">>

lower_char(c) ==
    IF \E i \in DOMAIN Upper : Upper[i] = c
    THEN Lower[CHOOSE i \in DOMAIN Upper : Upper[i] = c] ELSE c

\* str.lower()
lower(x) == [i \in DOMAIN x |-> lower_char(x[i])]

\* `sub in x` for two str
Contains(x, sub) ==
    \E i \in 0..(Len(x) - Len(sub)) : \A j \in 1..Len(sub) : x[i + j] = sub[j]

T_temperatur == <<"t", "e", "m", "p", "e", "r", "a", "t", "u", "r">>

\* mutant: the name is matched as it is written
module_sensor_type_cased(s_name) ==
    IF Contains(s_name, T_temperatur) THEN "temperature" ELSE "sensor"

module_sensor_type(s_name) ==
    IF Contains(lower(s_name), T_temperatur) THEN "temperature" ELSE "sensor"

module_prefix(module) == <<"/", "1", "/">> \o str(module.node) \o <<"/">> \o str(module.fct)

module_dev_id(module) == slugify(host \o module_prefix(module))

module_sensors(module) == GetOr(module, "sensors", << >>)

module_child(module, s) ==
    [id |-> slugify(host \o s.oid), name |-> NameConcat(module.name, <<" ">> \o s.name),
     type |-> module_sensor_type(s.name), oid |-> s.oid,
     device_id |-> module_dev_id(module), device_name |-> module.name]

\* _build_module_sensors applied to the pair (devices, oids_to_fetch)
build_module_sensors(b, module) ==
    LET sensors == module_sensors(module)
    IN [devices |-> b.devices \o [i \in DOMAIN sensors |-> module_child(module, sensors[i])],
        oids_to_fetch |-> b.oids_to_fetch \cup {sensors[i].oid : i \in DOMAIN sensors}]

RECURSIVE build_circuits(_, _)
\* `for hk in self._spec.get("heating_circuits", []): self._build_hk_climate_device(hk)`
build_circuits(b, hks) ==
    IF hks = << >> THEN b
    ELSE build_circuits(build_hk_climate_device(b, Head(hks)), Tail(hks))

RECURSIVE build_modules(_, _)
\* `for mod in self._spec.get("modules", []): self._build_module_sensors(mod)`
build_modules(b, mods) ==
    IF mods = << >> THEN b
    ELSE build_modules(build_module_sensors(b, Head(mods)), Tail(mods))

\* mutant: the list and the set of the previous cycle are kept
reset_build_kept(devs, oidset) == [devices |-> devs, oids_to_fetch |-> oidset]

\* the reset of fetch_all: self.devices = [], self._oids_to_fetch = set()
reset_build(devs, oidset) == [devices |-> << >>, oids_to_fetch |-> {}]

\* mutant: the cycle builds onto the list and the set it finds
rebuild_incremental(spec, devs, oidset) ==
    build_modules(
        build_circuits([devices |-> devs, oids_to_fetch |-> oidset],
                       GetOr(spec, "heating_circuits", << >>)),
        GetOr(spec, "modules", << >>))

\* lines 211-218 of fetch_all: reset, then build from the specification
rebuild(spec, devs, oidset) ==
    build_modules(
        build_circuits(reset_build(devs, oidset), GetOr(spec, "heating_circuits", << >>)),
        GetOr(spec, "modules", << >>))

\* a < b for two str, as Python orders them (by code point; the characters of
\* the OIDs in use are "/" and digits, "/" sorting before the digits)
CharRank(c) == IF c = "/" THEN 0 ELSE IF IsDigit(c) THEN DigitVal(c) + 1 ELSE 11

RECURSIVE StrLess(_, _)
StrLess(a, b) ==
    IF b = << >> THEN FALSE
    ELSE IF a = << >> THEN TRUE
    ELSE IF Head(a) = Head(b) THEN StrLess(Tail(a), Tail(b))
    ELSE CharRank(Head(a)) < CharRank(Head(b))

RECURSIVE sorted_descending(_)
\* mutant: the list is in descending order
sorted_descending(S) ==
    IF S = {} THEN << >>
    ELSE LET m == CHOOSE x \in S : \A y \in S \ {x} : StrLess(y, x)
         IN <<m>> \o sorted_descending(S \ {m})

RECURSIVE sorted(_)
\* sorted(set of str): ascending list
sorted(S) ==
    IF S = {} THEN << >>
    ELSE LET m == CHOOSE x \in S : \A y \in S \ {x} : StrLess(x, y)
         IN <<m>> \o sorted(S \ {m})

----------------------------------------------------------------------------
(* Fetch classification *)

\* what _lookup returns: the JSON object of the response, or None
JsNone == [isNone |-> TRUE]

Js(d) == [isNone |-> FALSE, dict |-> d]

EmptyDict == [k \in {} |-> None]

\* the responses the device gives to a lookup, as ret.json() returns them
JsonResponses ==
    {EmptyDict, [unit |-> U_degC],
     [value |-> V_sentinel, unit |-> U_degC], [value |-> V_empty, unit |-> U_degC],
     [value |-> V_temp, unit |-> U_degC], [value |-> V_temp]}

\* what awaiting the request ends with: an exception (transport, authentication,
\* a body that is no JSON), or the JSON of the response
RequestFailed == [failed |-> TRUE]

LookupOutcomes == {RequestFailed} \cup {[failed |-> FALSE, json |-> j] : j \in JsonResponses}

\* lines 81-88 of _lookup: the JSON, or None when anything raised
lookup_result(outcome) == IF outcome.failed THEN JsNone ELSE Js(outcome.json)

\* `not js or "value" not in js`
no_value(js) == js.isNone \/ DOMAIN js.dict = {} \/ "value" \notin DOMAIN js.dict

\* mutant: the default sentinels are used, whatever the specification configures
is_unknown_defaults(val, unknown) == val \in DefaultUnknownValues

\* `val in self._unknown_values`
is_unknown(val, unknown) == val \in unknown

\* lines 227-237 of fetch_all: ret with the outcome of one OID recorded
record_lookup(ret, oid, js, unknown) ==
    IF no_value(js)
    THEN [ret EXCEPT !.oids = With(ret.oids, oid, None)]
    ELSE LET val  == Get(js.dict, "value")
             unit == Get(js.dict, "unit")
         IN [ret EXCEPT !.units = With(ret.units, oid, unit),
                        !.oids  = With(ret.oids, oid,
                                       IF is_unknown(val, unknown) THEN None ELSE val)]

\* lines 221-223 of fetch_all
new_ret(devs, eco_minutes) ==
    [devices |-> devs, oids |-> EmptyDict, units |-> EmptyDict,
     meta |-> [eco_default_duration_minutes |-> eco_minutes]]

----------------------------------------------------------------------------
(* State *)

Tasks == {"t1", "t2"}

VARIABLES
    readable,        \* whether spec.json could be read and parsed
    ctor,            \* "ok", or "raised" when __init__ raised
    spec,            \* self._spec
    unknown_values,  \* self._unknown_values
    eco,             \* self._eco_default_duration_minutes
    session,         \* self._session: a session id, 0 for None
    auth,            \* self._auth: the session id it is bound to, 0 for None
    sessions,        \* state of every session created: "open", "closing", "closed"
    devices,         \* self.devices
    oids_to_fetch,   \* self._oids_to_fetch
    pc,              \* per task: "idle", or the await it is suspended at
    local,           \* per task: the local variables of the suspended coroutine
    result,          \* the call that ended last, and how
    data,            \* the snapshot fetch_all returned last, with the number of
                     \* lookups that failed in its cycle and the number of cycles
                     \* that have returned
    lastReq,         \* the request issued last
    calls,           \* number of calls started
    input,           \* the argument a helper function is applied to
    output           \* the values the helper function returned, in order

vars == <<readable, ctor, spec, unknown_values, eco, session, auth, sessions, devices,
          oids_to_fetch, pc, local, result, data, lastReq, calls, input, output>>

NoLocal == [op |-> "none"]

NoResult == [op |-> "none", status |-> "none"]

NoData == [published |-> FALSE]

NoReq == [method |-> "none"]

NoInput == [f |-> "none"]

Init ==
    /\ \E file \in Files :
          /\ readable = file.readable
          /\ spec = load_spec(file)
    /\ unknown_values = init_unknown_values(spec)
    /\ ctor = IF init_eco(spec).ok THEN "ok" ELSE "raised"
    /\ eco = IF init_eco(spec).ok THEN init_eco(spec).v ELSE 0
    /\ session = 0
    /\ auth = 0
    /\ sessions = << >>
    /\ devices = << >>
    /\ oids_to_fetch = {}
    /\ pc = [t \in Tasks |-> "idle"]
    /\ local = [t \in Tasks |-> NoLocal]
    /\ result = NoResult
    /\ data = NoData
    /\ lastReq = NoReq
    /\ calls = 0
    /\ input = NoInput
    /\ output = << >>

\* a call can start: the client was constructed and the task is not inside a
\* call.  The tasks are interchangeable, so a call starts on "t2" only while
\* "t1" is inside a call.
CanCall(t) ==
    /\ ctor = "ok"
    /\ pc[t] = "idle"
    /\ calls < MaxCalls
    /\ t = "t2" => pc["t1"] # "idle"

----------------------------------------------------------------------------
(* Session *)

\* _ensure_session on (self._session, self._auth, the sessions created)
ensure_session(s) ==
    IF s.session = 0
    THEN [session |-> Len(s.sessions) + 1, auth |-> Len(s.sessions) + 1,
          sessions |-> Append(s.sessions, "open")]
    ELSE s

SessionState == [session |-> session, auth |-> auth, sessions |-> sessions]

\* `await self._auth.request(method, url)`: the request goes out through the
\* session self._auth is bound to
IssueRequest(t, method, oid) ==
    LET s == ensure_session(SessionState)
    IN /\ session' = s.session
       /\ auth' = s.auth
       /\ sessions' = s.sessions
       /\ lastReq' = [method |-> method, oid |-> oid, session |-> s.auth,
                      state |-> s.sessions[s.auth]]

\* the local variables a coroutine keeps about the request it awaits
Awaited(s) == [session |-> s.auth, issuedOn |-> s.sessions[s.auth]]

----------------------------------------------------------------------------
(* fetch_all *)

\* mutant: the exception of a failed request leaves _lookup
lookup_uncaught(outcome) ==
    [raised |-> outcome.failed, js |-> lookup_result(outcome)]

\* lines 81-88 of _lookup: every exception of the request is caught
lookup(outcome) == [raised |-> FALSE, js |-> lookup_result(outcome)]

\* fetch_all returns ret
FetchReturn(t, ret, failures) ==
    /\ data' = [published |-> TRUE, snapshot |-> ret, failures |-> failures,
                cycle |-> IF data.published THEN data.cycle + 1 ELSE 1]
    /\ result' = [op |-> "fetch_all", status |-> "returned"]
    /\ pc' = [pc EXCEPT ![t] = "idle"]
    /\ local' = [local EXCEPT ![t] = NoLocal]

\* fetch_all suspends in `await self._lookup(queue[i])`
FetchAwait(t, ret, queue, i, failures) ==
    /\ IssueRequest(t, "GET", queue[i])
    /\ pc' = [pc EXCEPT ![t] = "lookup"]
    /\ local' = [local EXCEPT ![t] =
            [op |-> "fetch_all", ret |-> ret, queue |-> queue, i |-> i,
             failures |-> failures,
             await |-> Awaited(ensure_session(SessionState))]]
    /\ UNCHANGED <<data, result>>

\* fetch_all from its call to its first await (or to its return, with no OID)
FetchStart(t) ==
    /\ CanCall(t)
    /\ calls' = calls + 1
    /\ LET b     == rebuild(spec, devices, oids_to_fetch)
           ret   == new_ret(b.devices, eco)
           queue == sorted(b.oids_to_fetch)
       IN /\ devices' = b.devices
          /\ oids_to_fetch' = b.oids_to_fetch
          /\ IF queue = << >>
             THEN FetchReturn(t, ret, 0) /\ UNCHANGED <<session, auth, sessions, lastReq>>
             ELSE FetchAwait(t, ret, queue, 1, 0)
    /\ UNCHANGED <<input, output, readable, ctor, spec,
                   unknown_values, eco>>

\* the awaited lookup ends with `outcome`; fetch_all runs to its next await or
\* to its return
LookupDone(t, outcome) ==
    /\ pc[t] = "lookup"
    /\ local[t].await.issuedOn # "open" => outcome.failed
    /\ LET l   == local[t]
           r   == lookup(outcome)
           ret == record_lookup(l.ret, l.queue[l.i], r.js, unknown_values)
           n   == l.failures + (IF outcome.failed THEN 1 ELSE 0)
       IN IF r.raised
          THEN /\ result' = [op |-> "fetch_all", status |-> "raised"]
               /\ pc' = [pc EXCEPT ![t] = "idle"]
               /\ local' = [local EXCEPT ![t] = NoLocal]
               /\ UNCHANGED <<data, session, auth, sessions, lastReq>>
          ELSE IF l.i < Len(l.queue)
          THEN FetchAwait(t, ret, l.queue, l.i + 1, n)
          ELSE FetchReturn(t, ret, n) /\ UNCHANGED <<session, auth, sessions, lastReq>>
    /\ UNCHANGED <<input, output, readable, ctor, spec,
                   unknown_values, eco, devices, oids_to_fetch, calls>>

----------------------------------------------------------------------------
(* update *)

UpdateOids == {O_mode}

UpdateValues == {V_temp}

\* update from its call to `await self._auth.request("PUT", ...)`
UpdateStart(t, oid, value) ==
    /\ CanCall(t)
    /\ calls' = calls + 1
    /\ IssueRequest(t, "PUT", oid)
    /\ pc' = [pc EXCEPT ![t] = "update"]
    /\ local' = [local EXCEPT ![t] =
            [op |-> "update", oid |-> oid, value |-> value,
             await |-> Awaited(ensure_session(SessionState))]]
    /\ UNCHANGED <<input, output, readable, ctor, spec,
                   unknown_values, eco, devices, oids_to_fetch,
                   result, data>>

\* mutant: the exception is logged and swallowed
update_end_swallowed(failed) == IF failed THEN "returned" ELSE "returned"

\* lines 94-99 of update: the exception of the request is logged and raised again
update_end(failed) == IF failed THEN "raised" ELSE "returned"

UpdateDone(t, failed) ==
    /\ pc[t] = "update"
    /\ local[t].await.issuedOn # "open" => failed
    /\ result' = [op |-> "update", status |-> update_end(failed), failed |-> failed]
    /\ pc' = [pc EXCEPT ![t] = "idle"]
    /\ local' = [local EXCEPT ![t] = NoLocal]
    /\ UNCHANGED <<input, output, readable, ctor, spec,
                   unknown_values, eco, session, auth, sessions,
                   devices, oids_to_fetch, data, lastReq, calls>>

----------------------------------------------------------------------------
(* close *)

\* `if self._session:` of close
close_needed(sess) == sess # 0

\* close from its call: with no session it returns; a session already closing
\* or closed has nothing to await, so close runs to its end; an open session
\* starts its teardown and close suspends in `await self._session.close()`
CloseStart(t) ==
    /\ CanCall(t)
    /\ calls' = calls + 1
    /\ IF ~close_needed(session)
       THEN /\ result' = [op |-> "close", status |-> "returned"]
            /\ UNCHANGED <<session, auth, sessions, pc, local>>
       ELSE IF sessions[session] # "open"
       THEN /\ result' = [op |-> "close", status |-> "returned"]
            /\ session' = 0
            /\ auth' = 0
            /\ UNCHANGED <<sessions, pc, local>>
       ELSE /\ sessions' = [sessions EXCEPT ![session] = "closing"]
            /\ pc' = [pc EXCEPT ![t] = "close"]
            /\ local' = [local EXCEPT ![t] = [op |-> "close", session |-> session]]
            /\ UNCHANGED <<session, auth, result>>
    /\ UNCHANGED <<input, output, readable, ctor, spec,
                   unknown_values, eco, devices, oids_to_fetch,
                   data, lastReq>>

\* mutant: the teardown ends and the client keeps the closed session
CloseDone_keeps_session(t) ==
    /\ pc[t] = "close"
    /\ sessions' = [sessions EXCEPT ![local[t].session] = "closed"]
    /\ result' = [op |-> "close", status |-> "returned"]
    /\ pc' = [pc EXCEPT ![t] = "idle"]
    /\ local' = [local EXCEPT ![t] = NoLocal]
    /\ UNCHANGED <<input, output, readable, ctor, spec,
                   unknown_values, eco, session, auth, devices,
                   oids_to_fetch, data, lastReq, calls>>

\* the teardown ends: lines 74-75 of close
CloseDone(t) ==
    /\ pc[t] = "close"
    /\ sessions' = [sessions EXCEPT ![local[t].session] = "closed"]
    /\ session' = 0
    /\ auth' = 0
    /\ result' = [op |-> "close", status |-> "returned"]
    /\ pc' = [pc EXCEPT ![t] = "idle"]
    /\ local' = [local EXCEPT ![t] = NoLocal]
    /\ UNCHANGED <<input, output, readable, ctor, spec,
                   unknown_values, eco, devices, oids_to_fetch,
                   data, lastReq, calls>>

----------------------------------------------------------------------------
(* eco/comfort default *)

SetterInputs ==
    {PyInt(45), PyStr(<<"3", "0">>), PyFloat(5), PyInt(0), PyInt(0 - 1),
     PyStr(<<"a", "b", "c">>), PyNone}

\* mutant: `if minutes < 0`, which lets 0 through
rejected_negative_only(minutes) == minutes < 0

\* `if minutes <= 0: raise ValueError`
rejected(minutes) == minutes <= 0

\* set_eco_default_duration_minutes: the new value of the default; every
\* exception is caught and logged
set_eco_default_duration_minutes(current, minutes) ==
    LET m == int(minutes)
    IN IF m.ok /\ ~rejected(m.v)
       THEN [eco |-> m.v, raised |-> FALSE]
       ELSE [eco |-> current, raised |-> FALSE]

SetEco(t, minutes) ==
    /\ CanCall(t)
    /\ calls' = calls + 1
    /\ LET r == set_eco_default_duration_minutes(eco, minutes)
       IN /\ eco' = r.eco
          /\ result' = [op |-> "set_eco",
                 status |-> IF r.raised THEN "raised" ELSE "returned"]
    /\ UNCHANGED <<input, output, readable, ctor, spec,
                   unknown_values, session, auth, sessions, devices,
                   oids_to_fetch, pc, local, data, lastReq>>

----------------------------------------------------------------------------
(* Specifications *)

Step(t) ==
    \/ FetchStart(t)
    \/ \E outcome \in LookupOutcomes : LookupDone(t, outcome)
    \/ \E oid \in UpdateOids, value \in UpdateValues : UpdateStart(t, oid, value)
    \/ \E failed \in BOOLEAN : UpdateDone(t, failed)
    \/ CloseStart(t)
    \/ CloseDone(t)
    \/ \E minutes \in SetterInputs : SetEco(t, minutes)

\* the calls of the tasks interleave at their await points
Next == \E t \in Tasks : Step(t)

Spec == Init /\ [][Next]_vars

\* one caller: every call ends before the next one starts
SeqNext == Step("t1")

SeqSpec == Init /\ [][SeqNext]_vars

\* the document of the client whose session is followed
SessionDocument == [heating_circuits |-> <<hk1>>, modules |-> << >>]

\* a client whose first request, an update, has completed: it holds an open
\* session, and no call is in progress; calls counts the calls started from
\* here on
SessionInit ==
    /\ readable = TRUE
    /\ spec = load_spec([readable |-> TRUE, json |-> SessionDocument])
    /\ unknown_values = init_unknown_values(spec)
    /\ ctor = "ok"
    /\ eco = init_eco(spec).v
    /\ session = 1
    /\ auth = 1
    /\ sessions = <<"open">>
    /\ devices = << >>
    /\ oids_to_fetch = {}
    /\ pc = [t \in Tasks |-> "idle"]
    /\ local = [t \in Tasks |-> NoLocal]
    /\ result = [op |-> "update", status |-> "returned", failed |-> FALSE]
    /\ data = NoData
    /\ lastReq = [method |-> "PUT", oid |-> O_mode, session |-> 1, state |-> "open"]
    /\ calls = 0
    /\ input = NoInput
    /\ output = << >>

SessionSpec == SessionInit /\ [][Next]_vars

----------------------------------------------------------------------------
(* Helper functions of the client and of the climate platform, applied to
   drawn arguments *)

\* the str values of the members of Home Assistant's HVACMode in use
HVACMode ==
    [AUTO |-> <<"a", "u", "t", "o">>, HEAT |-> <<"h", "e", "a", "t">>,
     OFF |-> <<"o", "f", "f">>, COOL |-> <<"c", "o", "o", "l">>]

\* map_mode_from_raw of climate.py
map_mode_from_raw(raw) ==
    IF py_str(raw) = <<"0">> THEN HVACMode.AUTO
    ELSE IF py_str(raw) = <<"2">> THEN HVACMode.OFF
    ELSE HVACMode.HEAT

\* mutant: "1" is the code of AUTO and "0" the one of HEAT
map_mode_to_raw_swapped(mode) ==
    IF mode = HVACMode.AUTO THEN <<"1">>
    ELSE IF mode = HVACMode.OFF THEN <<"2">>
    ELSE <<"0">>

\* map_mode_to_raw of climate.py
map_mode_to_raw(mode) ==
    IF mode = HVACMode.AUTO THEN <<"0">>
    ELSE IF mode = HVACMode.OFF THEN <<"2">>
    ELSE <<"1">>

\* float(str) for a str of digits, "." and "-": an optional sign and digits
\* with at most one "." among them; anything else, "" and "-.-" included, is
\* ValueError.  The values in use have at most one decimal, so the value is
\* given in tenths.
FloatOfStr(s) ==
    LET neg    == Len(s) > 0 /\ s[1] = "-"
        body   == IF neg THEN Tail(s) ELSE s
        dots   == {i \in 1..Len(body) : body[i] = "."}
        dot    == IF dots = {} THEN Len(body) + 1 ELSE CHOOSE i \in dots : TRUE
        whole  == SubSeq(body, 1, dot - 1)
        frac   == SubSeq(body, dot + 1, Len(body))
        digits == whole \o frac
        tenths == 10 * ParseDigits(whole, 0) + (IF frac = << >> THEN 0 ELSE DigitVal(frac[1]))
    IN IF Cardinality(dots) <= 1 /\ AllDigits(digits)
       THEN Value(IF neg THEN 0 - tenths ELSE tenths)
       ELSE Raised

\* a float, or None, as a property of the entity returns it
Absent == [isNone |-> TRUE]

\* _float_or_none of climate.py, applied to a value of the snapshot (a str or
\* None)
float_or_none(v) ==
    IF v = None THEN Absent
    ELSE IF FloatOfStr(v).ok THEN [isNone |-> FALSE, tenths |-> FloatOfStr(v).v]
    ELSE Absent

\* self.coordinator.data: None before the first refresh, then the snapshot
\* fetch_all returned last
coordinator_data == IF data.published THEN Js(data.snapshot) ELSE JsNone

\* (self.coordinator.data or {}).get("oids", {})
coordinator_oids(cdata) == IF cdata.isNone THEN EmptyDict ELSE cdata.dict.oids

\* mutant: the entity is available when the snapshot has the key
available_with_key(cdata, oids_map) ==
    Get(oids_map, "room_temp") \in DOMAIN coordinator_oids(cdata)

\* WindhagerClimateBase.available, for the entity of a climate device with
\* the given oids_map
available(cdata, oids_map) ==
    Get(coordinator_oids(cdata), Get(oids_map, "room_temp")) # None

\* WindhagerClimateBase.current_temperature
current_temperature(cdata, oids_map) ==
    float_or_none(Get(coordinator_oids(cdata), Get(oids_map, "room_temp")))

\* the str over the alphabet A of length at most n
Strings(A, n) == UNION {[1..k -> A] : k \in 0..n}

SlugAlphabet == {".", "/", "-", "a"}

\* the modes Home Assistant may hand to map_mode_to_raw
Modes == {HVACMode.AUTO, HVACMode.HEAT, HVACMode.OFF, HVACMode.COOL}

\* the raw values of the mode OID map_mode_from_raw may be handed: strings,
\* JSON numbers, None
RawValues ==
    {PyStr(<<"0">>), PyStr(<<"1">>), PyStr(<<"2">>), PyStr(<<"3">>), PyStr(<<"0", "0">>),
     PyStr(<<"2", "0">>), PyStr(V_empty), PyStr(V_sentinel), PyStr(V_temp),
     PyInt(0), PyInt(1), PyInt(2), PyInt(20), PyInt(0 - 2), PyFloat(0), PyFloat(20),
     PyNone}

HelperInputs ==
    {[f |-> "slugify", identifier_str |-> x] : x \in Strings(SlugAlphabet, MaxLen)}
        \cup {[f |-> "map_mode_to_raw", mode |-> m] : m \in Modes}
        \cup {[f |-> "map_mode_from_raw", raw |-> r] : r \in RawValues}

clientVars == <<readable, ctor, spec, unknown_values, eco, session, auth, sessions, devices,
                oids_to_fetch, pc, local, result, data, lastReq, calls>>

\* a client constructed without a readable spec.json, no call made
HelperInit ==
    /\ input \in HelperInputs
    /\ output = << >>
    /\ readable = FALSE
    /\ spec = Fallback
    /\ unknown_values = init_unknown_values(Fallback)
    /\ ctor = "ok"
    /\ eco = init_eco(Fallback).v
    /\ session = 0
    /\ auth = 0
    /\ sessions = << >>
    /\ devices = << >>
    /\ oids_to_fetch = {}
    /\ pc = [t \in Tasks |-> "idle"]
    /\ local = [t \in Tasks |-> NoLocal]
    /\ result = NoResult
    /\ data = NoData
    /\ lastReq = NoReq
    /\ calls = 0

\* slugify applied to the drawn string, then to its own result
Slugify ==
    /\ input.f = "slugify"
    /\ Len(output) < 2
    /\ output' = Append(output, slugify(IF output = << >> THEN input.identifier_str ELSE output[1]))
    /\ UNCHANGED <<input, clientVars>>

\* map_mode_to_raw applied to the drawn mode
MapModeToRaw ==
    /\ input.f = "map_mode_to_raw"
    /\ output = << >>
    /\ output' = <<map_mode_to_raw(input.mode)>>
    /\ UNCHANGED <<input, clientVars>>

\* map_mode_from_raw applied to the drawn raw value, or to the raw code
\* map_mode_to_raw returned
MapModeFromRaw ==
    /\ \/ /\ input.f = "map_mode_from_raw"
          /\ output = << >>
          /\ output' = <<map_mode_from_raw(input.raw)>>
       \/ /\ input.f = "map_mode_to_raw"
          /\ Len(output) = 1
          /\ output' = Append(output, map_mode_from_raw(PyStr(output[1])))
    /\ UNCHANGED <<input, clientVars>>

HelperNext == Slugify \/ MapModeToRaw \/ MapModeFromRaw

HelperSpec == HelperInit /\ [][HelperNext]_vars

----------------------------------------------------------------------------
(* Properties of the snapshot and of the build *)

\* the OIDs the descriptors of a device list reference: a child's oid, and
\* the values of a climate device's oids_map that are not None
ReferencedOids(devs) ==
    UNION {IF devs[i].type = "climate"
           THEN {devs[i].oids_map[k] : k \in DOMAIN devs[i].oids_map} \ {None}
           ELSE {devs[i].oid} : i \in DOMAIN devs}

\* C1 as stated: every OID a descriptor of the returned snapshot references,
\* every non-absent oids_map value included, is a key of the snapshot's oids.
C1_AsStated ==
    data.published =>
        ReferencedOids(data.snapshot.devices) \subseteq DOMAIN data.snapshot.oids

\* C1, amended: every child's oid and every oids_map value that is neither
\* absent nor the empty string is a key of the returned snapshot's oids, the
\* value possibly absent.
C1_ReferencedOidsAreKeys ==
    data.published =>
        (ReferencedOids(data.snapshot.devices) \ {<< >>}) \subseteq DOMAIN data.snapshot.oids

\* a snapshot was returned whose climate device maps a role to "" and whose
\* oids holds a referenced OID with an absent value after a failed lookup
C1_Witness ==
    /\ data.published
    /\ << >> \in ReferencedOids(data.snapshot.devices)
    /\ data.failures > 0
    /\ \E o \in ReferencedOids(data.snapshot.devices) \ {<< >>} : data.snapshot.oids[o] = None

\* what a rebuild yields from each specification a client may have loaded
BuiltOf == [d \in {load_spec(f) : f \in Files} |-> rebuild(d, << >>, {})]

\* what a rebuild from the loaded specification yields
Built == BuiltOf[spec]

\* the snapshot a LookupDone step of task t leaves: the ret of the suspended
\* cycle, or the snapshot just returned
RetAfter(t) == IF pc'[t] = "lookup" THEN local'[t].ret ELSE data'.snapshot

C2_NeverRaises == ~(result.op = "fetch_all" /\ result.status = "raised")

C2_Complete ==
    data.published =>
        /\ data.snapshot.devices = Built.devices
        /\ DOMAIN data.snapshot.oids = Built.oids_to_fetch
        /\ data.failures = Cardinality(Built.oids_to_fetch) =>
              /\ \A o \in Built.oids_to_fetch : data.snapshot.oids[o] = None
              /\ DOMAIN data.snapshot.units = {}

C2_FailedLookupStep ==
    \A t \in Tasks :
        LookupDone(t, RequestFailed) =>
            LET l == local[t]
            IN /\ RetAfter(t).oids = With(l.ret.oids, l.queue[l.i], None)
               /\ RetAfter(t).units = l.ret.units
               /\ IF l.i < Len(l.queue)
                  THEN /\ pc'[t] = "lookup"
                       /\ local'[t].i = l.i + 1
                       /\ lastReq'.oid = l.queue[l.i + 1]
                  ELSE result' = [op |-> "fetch_all", status |-> "returned"]

UnitOf(json) == IF "unit" \in DOMAIN json THEN json["unit"] ELSE None

C3_Step ==
    \A t \in Tasks, outcome \in LookupOutcomes :
        LookupDone(t, outcome) =>
            LET oid == local[t].queue[local[t].i]
                new == RetAfter(t)
            IN IF outcome.failed \/ "value" \notin DOMAIN outcome.json
               THEN new.oids[oid] = None /\ oid \notin DOMAIN new.units
               ELSE IF outcome.json["value"] \in unknown_values
               THEN /\ new.oids[oid] = None
                    /\ oid \in DOMAIN new.units
                    /\ new.units[oid] = UnitOf(outcome.json)
               ELSE /\ new.oids[oid] = outcome.json["value"]
                    /\ oid \in DOMAIN new.units
                    /\ new.units[oid] = UnitOf(outcome.json)

\* C3: the outcome of the lookup of an OID is recorded in one of three ways:
\* failed or no value field, absent and no unit; a configured unknown value,
\* absent with the unit of the response; otherwise the value and the unit as
\* returned.
C3_Classification == [][C3_Step]_vars

\* a snapshot with an OID absent for a sentinel (its unit recorded) and an
\* OID with its value
C3_Witness ==
    /\ data.published
    /\ data.failures = 0
    /\ \E a, b \in DOMAIN data.snapshot.oids :
          /\ data.snapshot.oids[a] = None
          /\ a \in DOMAIN data.snapshot.units
          /\ data.snapshot.units[a] = U_degC
          /\ data.snapshot.oids[b] = V_temp
          /\ b \in DOMAIN data.snapshot.units

AuxiliaryRoles ==
    {"room_temp", "room_target_ro", "flow_temp", "flow_target", "dhw_temp",
     "dhw_target_ro", "outside_temp", "pump", "mixer"}

\* the circuit gives the role an OID that is not the empty string
HasOid(hk, R) == R \in DOMAIN hk.oids /\ hk.oids[R] # None /\ hk.oids[R] # << >>

\* d is the child device of role R of circuit hk
IsChildFor(d, hk, R) ==
    /\ d.type # "climate"
    /\ R \in DOMAIN hk.oids
    /\ d.oid = hk.oids[R]
    /\ d.device_id = hk_dev_id(hk)
    /\ d.name = <<hk.name, RoleLabel(R)>>

RECURSIVE CountChildrenDue(_)
\* the number of (circuit, auxiliary role) pairs that have an OID
CountChildrenDue(hks) ==
    IF hks = << >> THEN 0
    ELSE Cardinality({R \in AuxiliaryRoles : HasOid(Head(hks), R)}) + CountChildrenDue(Tail(hks))

C4_Post ==
    LET hks == spec.heating_circuits
        ids == {hk_dev_id(hks[i]) : i \in DOMAIN hks}
    IN /\ \A i \in DOMAIN hks, R \in AuxiliaryRoles :
              (\E j \in DOMAIN devices : IsChildFor(devices[j], hks[i], R)) <=> HasOid(hks[i], R)
       /\ Cardinality({j \in DOMAIN devices :
                          devices[j].type # "climate" /\ devices[j].device_id \in ids})
              = CountChildrenDue(hks)
       /\ oids_to_fetch = ReferencedOids(devices) \ {<< >>}

IsClimate(d) == d.type = "climate"

SixRoles == {"mode", "comfort_offset", "eco_temp", "eco_duration", "room_temp", "room_target_ro"}

C5_Post ==
    LET hks     == spec.heating_circuits
        climate == SelectSeq(devices, IsClimate)
    IN /\ Len(climate) = Len(hks)
       /\ \A i \in DOMAIN climate :
             /\ climate[i].name = hks[i].name
             /\ DOMAIN climate[i].oids_map = SixRoles
             /\ \A k \in SixRoles :
                   climate[i].oids_map[k] =
                       IF k \in DOMAIN hks[i].oids THEN hks[i].oids[k] ELSE None

\* C5: the build emits one climate device per heating circuit, in order, whose
\* oids_map has exactly the six control roles as keys, a role the circuit does
\* not define mapped to absent.
C5_ClimateDevices == [][\A t \in Tasks : FetchStart(t) => C5_Post']_vars

\* a build with two climate devices, one of a circuit that defines none of the
\* six roles but has a flow_temp child
C5_Witness ==
    /\ Len(SelectSeq(devices, IsClimate)) = 2
    /\ \E j \in DOMAIN devices :
          /\ devices[j].type = "climate"
          /\ \A k \in DOMAIN devices[j].oids_map : devices[j].oids_map[k] = None
    /\ \E j \in DOMAIN devices :
          devices[j].type = "temperature" /\ devices[j].name = <<N_HK2, RoleLabel("flow_temp")>>

----------------------------------------------------------------------------
(* Properties of the eco/comfort default, of writes, of the session and of
   the loader *)

C6_Step ==
    \A t \in Tasks, m \in SetterInputs :
        SetEco(t, m) =>
            /\ result' = [op |-> "set_eco", status |-> "returned"]
            /\ eco' = IF int(m).ok /\ int(m).v > 0 THEN int(m).v ELSE eco

\* C6: the setter applies an input that coerces to an integer greater than 0,
\* and for every other input returns without raising and leaves the default
\* as it was.
C6_SetterValidates == [][C6_Step]_vars

\* the setter has returned and the default is the 30 that "30" coerces to
C6_Witness == result.op = "set_eco" /\ eco = 30

\* C7 as stated: the default of a constructed client, and the one in the meta
\* of every returned snapshot, is a positive integer.
C7_AsStated ==
    ctor = "ok" =>
        /\ eco > 0
        /\ data.published => data.snapshot.meta.eco_default_duration_minutes > 0

C8_Returned == result.op = "update" => (result.status = "raised" <=> result.failed)

C8_Step ==
    \A t \in Tasks :
        UpdateDone(t, TRUE) => result'.status = "raised" /\ eco' = eco /\ data' = data

\* C8: update raises when its request failed and returns only when the
\* request completed, a fetch cycle in progress or not; a failed write changes
\* neither the eco default nor the snapshot already returned.
C8_WriteFailuresRaise == []C8_Returned /\ [][C8_Step]_vars

\* an update has raised while a fetch cycle is suspended in a lookup, a
\* snapshot having been returned before
C8_Witness ==
    /\ result = [op |-> "update", status |-> "raised", failed |-> TRUE]
    /\ data.published
    /\ \E t \in Tasks : pc[t] = "lookup"

C9_NoSessionClose ==
    \A t \in Tasks :
        (session = 0 /\ CloseStart(t)) =>
            /\ result' = [op |-> "close", status |-> "returned"]
            /\ UNCHANGED <<readable, ctor, spec, unknown_values, eco, session, auth, sessions,
                           devices, oids_to_fetch, pc, local, data, lastReq>>

C9_RequestsUseOpenSession ==
    /\ lastReq.method # "none" => lastReq.state = "open"
    /\ auth = session

\* C9: with one caller, close without a session changes nothing and returns;
\* every request goes out through a session that was open when the request
\* was issued, so a lookup or update after a teardown creates a new session,
\* with the authenticator bound to it.
C9_SessionReestablished == []C9_RequestsUseOpenSession /\ [][C9_NoSessionClose]_vars

\* after the first session was torn down a request went out through a second
C9_Witness ==
    /\ Len(sessions) = 2
    /\ sessions[1] = "closed"
    /\ lastReq.method # "none"
    /\ lastReq.session = 2

\* C10 as stated: construction always completes; after a failed load the
\* specification is the empty fallback with the default unknown values and
\* the default 180, and a fetch_all returns no devices and no OIDs.
C10_AsStated ==
    /\ ctor = "ok"
    /\ ~readable =>
          /\ spec.heating_circuits = << >>
          /\ spec.modules = << >>
          /\ unknown_values = {V_sentinel, V_empty}
          /\ calls = 0 => eco = 180
          /\ data.published =>
                data.snapshot.devices = << >> /\ DOMAIN data.snapshot.oids = {}

----------------------------------------------------------------------------
(* Properties of the fetch cycle *)

\* the cycle starts: with no required OID it returns without a request,
\* otherwise its first request is the lookup of the first OID of its queue
C13_Start ==
    \A t \in Tasks :
        FetchStart(t) =>
            IF Built.oids_to_fetch = {}
            THEN pc'[t] = "idle" /\ lastReq' = lastReq
            ELSE /\ pc'[t] = "lookup"
                 /\ local'[t].i = 1
                 /\ lastReq'.method = "GET"
                 /\ lastReq'.oid = local'[t].queue[1]

\* a lookup ends, failed or not: the next request is the lookup of the next
\* OID of the queue, and after the last one the cycle returns without a request
C13_Step ==
    \A t \in Tasks, outcome \in LookupOutcomes :
        LookupDone(t, outcome) =>
            IF local[t].i < Len(local[t].queue)
            THEN /\ pc'[t] = "lookup"
                 /\ local'[t].queue = local[t].queue
                 /\ local'[t].i = local[t].i + 1
                 /\ lastReq'.method = "GET"
                 /\ lastReq'.oid = local[t].queue[local[t].i + 1]
            ELSE pc'[t] = "idle" /\ lastReq' = lastReq

\* the queue of a cycle lists every required OID once, in ascending order;
\* the lookups that have ended are those of the OIDs before the current one
C13_Queue ==
    \A t \in Tasks :
        pc[t] = "lookup" =>
            LET q == local[t].queue
                required == Built.oids_to_fetch
            IN /\ SeqToSet(q) = required
               /\ Len(q) = Cardinality(required)
               /\ \A j \in 1..(Len(q) - 1) : StrLess(q[j], q[j + 1])
               /\ DOMAIN local[t].ret.oids = {q[j] : j \in 1..(local[t].i - 1)}
               /\ lastReq.method = "GET" /\ lastReq.oid = q[local[t].i]

\* C13: a fetch cycle issues one lookup for each required OID and for no
\* other, in ascending order of the OID strings, the lookup of an OID only
\* after the lookups of all smaller ones have ended, and none twice, a failed
\* one included.
C13_SequentialSortedLookups == []C13_Queue /\ [][C13_Start /\ C13_Step]_vars

\* the lookup of the smaller of two required OIDs has failed and the lookup
\* of the larger one is in flight
C13_Witness ==
    /\ pc["t1"] = "lookup"
    /\ local["t1"].queue = <<O_mode, O_room>>
    /\ local["t1"].i = 2
    /\ local["t1"].failures = 1
    /\ lastReq.oid = O_room

\* a cycle returns after an earlier one: its devices list and the keys of its
\* oids map are those of the earlier snapshot
C14_Step ==
    (data.published /\ data' # data) =>
        /\ data'.snapshot.devices = data.snapshot.devices
        /\ DOMAIN data'.snapshot.oids = DOMAIN data.snapshot.oids

\* C14: the snapshots of any two fetch cycles of a client have equal devices
\* lists and equal key sets of their oids maps, whatever the lookups returned
\* and whatever was called in between; the specification is never modified.
C14_CyclesRebuildFromSpec == [][C14_Step /\ spec' = spec]_vars

\* two cycles have returned, the second with a failed lookup, on two
\* sessions: the client was closed in between
C14_Witness ==
    /\ data.published
    /\ data.cycle = 2
    /\ data.failures > 0
    /\ Len(sessions) = 2
    /\ Len(data.snapshot.devices) > 2

\* an invocation returns from its last lookup: its snapshot has the devices
\* list it held while suspended and a key for exactly the OIDs of its queue,
\* the other invocation having started, being suspended or having returned
\* meanwhile or not
C15_Return ==
    \A t \in Tasks :
        (pc[t] = "lookup" /\ pc'[t] = "idle") =>
            /\ data'.snapshot.devices = local[t].ret.devices
            /\ DOMAIN data'.snapshot.oids = SeqToSet(local[t].queue)

\* a suspended invocation holds the devices list built from the
\* specification and the queue of exactly the required OIDs
C15_Suspended ==
    (\E t \in Tasks : pc[t] = "lookup") =>
        LET b == Built
        IN \A t \in Tasks :
              pc[t] = "lookup" =>
                  /\ local[t].ret.devices = b.devices
                  /\ SeqToSet(local[t].queue) = b.oids_to_fetch
                  /\ Len(local[t].queue) = Cardinality(b.oids_to_fetch)

\* C15: when two fetch_all invocations overlap, each returns the devices
\* list built from the specification, nothing duplicated or missing, and an
\* oids map with a key for exactly every required OID.
C15_OverlapKeepsSnapshots == []C15_Suspended /\ [][C15_Return]_vars

\* the first of two overlapping invocations has returned while the second,
\* started when the first was suspended, is still in its lookups
C15_Witness ==
    /\ calls = 2
    /\ data.published
    /\ pc["t1"] = "idle"
    /\ pc["t2"] = "lookup"
    /\ local["t2"].i = 2
    /\ Len(data.snapshot.devices) > 2

\* C16 as stated: the snapshot fetch_all returns carries in its meta the
\* eco/comfort default the getter returns at the moment of the return, a
\* successful setter call during the cycle's lookups included.
C16_AsStated ==
    [][data' # data => data'.snapshot.meta.eco_default_duration_minutes = eco']_vars

----------------------------------------------------------------------------
(* Properties of the module sensors *)

T_temperature == <<"t", "e", "m", "p", "e", "r", "a", "t", "u", "r", "e">>

\* the descriptors of the list devs that belong to the module
ModuleDevices(devs, module) ==
    SelectSeq(devs, LAMBDA d : d.device_id = module_dev_id(module))

\* the returned snapshot has, for every module, no climate device and one
\* child per listed sensor, in the listed order, with the sensor's oid and
\* the module's name; its type is temperature exactly when the sensor's name
\* contains the word in any case; the sensor's OID is a key of oids
C17_Modules(word) ==
    data.published =>
        \A k \in DOMAIN spec.modules :
            LET module  == spec.modules[k]
                sensors == IF "sensors" \in DOMAIN module THEN module.sensors ELSE << >>
                devs    == ModuleDevices(data.snapshot.devices, module)
            IN /\ Len(devs) = Len(sensors)
               /\ \A i \in DOMAIN sensors :
                     /\ devs[i].oid = sensors[i].oid
                     /\ devs[i].device_name = module.name
                     /\ devs[i].type \in {"temperature", "sensor"}
                     /\ devs[i].type = "temperature" <=> Contains(lower(sensors[i].name), word)
                     /\ sensors[i].oid \in DOMAIN data.snapshot.oids

\* C17 as stated: the child's type is temperature if and only if the
\* sensor's name contains the word "temperature" case-insensitively.
C17_AsStated == C17_Modules(T_temperature)

\* C17, amended: for every module no climate device is emitted and one child
\* per listed sensor, in the listed order, sharing the module's device_id;
\* the child's type is temperature if and only if the sensor's name contains
\* "temperatur" case-insensitively, and sensor otherwise; every module sensor
\* OID is required.
C17_ModuleSensors == C17_Modules(T_temperatur)

\* a snapshot with the three children of a module: two of type temperature,
\* one of them for a name in capitals, and one of type sensor
C17_Witness ==
    /\ data.published
    /\ spec.modules # << >>
    /\ LET devs == ModuleDevices(data.snapshot.devices, spec.modules[1])
       IN /\ Len(devs) = 3
          /\ devs[1].type = "temperature"
          /\ devs[2].type = "sensor"
          /\ devs[3].type = "temperature"

----------------------------------------------------------------------------
(* Properties of the climate entities *)

\* the oids_map of the climate devices: one climate entity each
EntityMaps ==
    LET devs == Built.devices
    IN {devs[i].oids_map : i \in {j \in DOMAIN devs : devs[j].type = "climate"}}

\* the entity is available exactly when the snapshot maps its room_temp OID
\* to a value; it is not when there is no snapshot or no room_temp OID; an
\* unavailable entity has no current temperature
C19_Entity(m) ==
    LET cdata == coordinator_data
        oid   == m["room_temp"]
    IN /\ available(cdata, m) <=>
             /\ data.published
             /\ oid \in DOMAIN data.snapshot.oids
             /\ data.snapshot.oids[oid] # None
       /\ ~data.published => ~available(cdata, m)
       /\ oid = None => ~available(cdata, m)
       /\ ~available(cdata, m) => current_temperature(cdata, m) = Absent

\* the cycle returns from the lookup of an entity's room_temp OID, which
\* failed or returned a sentinel: the entity is unavailable
C19_Degraded ==
    \A t \in Tasks, outcome \in LookupOutcomes :
        (/\ LookupDone(t, outcome)
         /\ pc'[t] = "idle"
         /\ \/ outcome.failed
            \/ /\ "value" \in DOMAIN outcome.json
               /\ outcome.json.value \in unknown_values)
            => \A m \in EntityMaps :
                  m["room_temp"] = local[t].queue[local[t].i] =>
                      ~available(Js(data'.snapshot), m)

\* C19: a climate entity is available if and only if the current snapshot
\* maps its room_temp OID to a non-absent value; it is unavailable with no
\* snapshot, with no room_temp OID, after a failed lookup of that OID and
\* after a sentinel value for it; its current_temperature is absent whenever
\* it is unavailable.
C19_AvailableIffRoomTemp ==
    /\ [](\A m \in EntityMaps : C19_Entity(m))
    /\ [][C19_Degraded]_vars

\* a snapshot was returned in which the lookup of the room_temp OID of an
\* entity failed, another OID having its value, and the entity is unavailable
C19_Witness ==
    /\ data.published
    /\ data.failures = 1
    /\ \E m \in EntityMaps :
          /\ m["room_temp"] \in DOMAIN data.snapshot.oids
          /\ data.snapshot.oids[m["room_temp"]] = None
          /\ ~available(coordinator_data, m)
          /\ \E o \in DOMAIN data.snapshot.oids : data.snapshot.oids[o] = V_temp

\* the sessions created and not yet closed (open, or in their teardown)
Unclosed == {i \in DOMAIN sessions : sessions[i] # "closed"}

C12_OneSession == Cardinality(Unclosed) <= 1 /\ \A i \in Unclosed : session = i

C12_NoDrop == (session # 0 /\ session' = 0) => sessions'[session] = "closed"

\* C12 as stated: under every interleaving of lookup, update and close calls
\* at most one session that has not been closed exists, it is the one the
\* client references, and the client's reference is set to none only for a
\* session that has been closed.
C12_AsStated == []C12_OneSession /\ [][C12_NoDrop]_vars

----------------------------------------------------------------------------
(* Properties of the helper functions *)

\* C11: for every string x over an alphabet with ".", "/", "-" and another
\* character, slugify(x) has no "." and no "/", has the length of x, and
\* slugify applied to it returns it unchanged.
C11_SlugifyIdempotent ==
    input.f = "slugify" =>
        /\ Len(output) >= 1 =>
              /\ \A i \in 1..Len(output[1]) : output[1][i] \notin {".", "/"}
              /\ Len(output[1]) = Len(input.identifier_str)
              /\ \A i \in 1..Len(input.identifier_str) :
                    output[1][i] = (IF input.identifier_str[i] \in {".", "/"} THEN "-"
                                    ELSE input.identifier_str[i])
        /\ Len(output) = 2 => output[2] = output[1]

\* slugify was applied twice, starting from a string with two "." and a "/"
C11_Witness ==
    /\ input.f = "slugify"
    /\ input.identifier_str = <<".", "/", ".">>
    /\ Len(output) = 2

\* C18: for every mode m of AUTO, HEAT, OFF, map_mode_from_raw of
\* map_mode_to_raw(m) is m; map_mode_to_raw returns "0", "1" or "2" for every
\* mode; map_mode_from_raw returns a mode for every raw value, None included,
\* and HEAT for every raw value that does not read "0" or "2".
C18_ModeMappingRoundTrips ==
    /\ input.f = "map_mode_to_raw" =>
          /\ Len(output) >= 1 => output[1] \in {<<"0">>, <<"1">>, <<"2">>}
          /\ (Len(output) = 2 /\ input.mode \in {HVACMode.AUTO, HVACMode.HEAT, HVACMode.OFF})
                => output[2] = input.mode
    /\ (input.f = "map_mode_from_raw" /\ Len(output) = 1) =>
          /\ output[1] \in {HVACMode.AUTO, HVACMode.HEAT, HVACMode.OFF}
          /\ py_str(input.raw) \notin {<<"0">>, <<"2">>} => output[1] = HVACMode.HEAT
          /\ py_str(input.raw) = <<"0">> => output[1] = HVACMode.AUTO
          /\ py_str(input.raw) = <<"2">> => output[1] = HVACMode.OFF

\* AUTO went to its raw code and back
C18_Witness ==
    /\ input.f = "map_mode_to_raw"
    /\ input.mode = HVACMode.AUTO
    /\ Len(output) = 2
    /\ output[1] = <<"0">>

====
